---------------------------- MODULE Spec2Model ----------------------------
(***************************************************************************)
(* A model of mixoss (src/mixoss.c): the in-memory mixer/control model     *)
(* built by load_mixers, the two navigation lists per mixer, the volume    *)
(* codec of get_control_volume / set_control_volume, and the poll loop of  *)
(* main with its key dispatch.                                             *)
(*                                                                         *)
(* Memory.  load_mixers addresses every control as &mixers->controls[e],   *)
(* that is, as an element of the control array of mixers[0], whatever the  *)
(* device being loaded.  The model therefore has one control store, ctl,   *)
(* indexed by the element index e: the slots below mixers[0].nb_controls   *)
(* are the array of mixers[0]; the slots at or above it are the heap that  *)
(* follows the array.  A write to such a slot is a heap overflow.  The     *)
(* arrays of the other mixers are allocated and freed but never accessed.  *)
(*                                                                         *)
(* Undefined behaviour.  Three kinds occur: use of storage after           *)
(* free_mixers released it, a write past the end of the control array of   *)
(* mixers[0], and a null pointer dereference.  For the first two the       *)
(* model keeps two outcomes: the access works on the bytes that are        *)
(* there (released storage keeps its contents, the heap behind the array   *)
(* is zero filled), or the process is killed (action Fault).  A null       *)
(* dereference kills the process.                                          *)
(***************************************************************************)
EXTENDS Integers, Sequences, FiniteSets, TLC

\* ---------------------------------------------------------------- bounds
MaxMixers == 2      \* devices the transport reports
MaxCtrls == 3       \* elements of the control store
MaxExt == 2         \* controls per device in the enumerated families
MaxWrites == 1      \* SNDCTL_MIX_WRITE calls per run
MaxFail == 1        \* SNDCTL_MIX_READ failures per pass of draw_ui

\* ------------------------------------------------------ program constants
gauge_width == 20

NULL == -1
Devs == 0 .. (MaxMixers - 1)
Slots == 0 .. (MaxCtrls - 1)
Ptrs == Slots \cup {NULL}

\* The control kinds of soundcard.h the program distinguishes: the two
\* navigable kinds, one inert kind, and kind 0.
NavTypes == {"MIXT_STEREOSLIDER", "MIXT_STEREOSLIDER16"}
InertType == "MIXT_ONOFF"
ZeroType == "MIXT_DEVROOT"

\* ------------------------------------------------------- C integer helpers
\* C division truncates towards zero.
CDiv(a, b) ==
    IF (a >= 0 /\ b > 0) \/ (a <= 0 /\ b < 0)
    THEN (IF a >= 0 THEN a ELSE -a) \div (IF b >= 0 THEN b ELSE -b)
    ELSE -((IF a >= 0 THEN a ELSE -a) \div (IF b >= 0 THEN b ELSE -b))

Pow2(n) == IF n = 0 THEN 1 ELSE 2 ^ n

\* a | b on two's complement ints: x = 2 * (x \div 2) + (x % 2), the
\* recursion ends at 0 (no bit set) and at -1 (every bit set)
RECURSIVE BitOr(_, _)
BitOr(a, b) ==
    IF a = 0 THEN b
    ELSE IF b = 0 THEN a
    ELSE IF a = -1 \/ b = -1 THEN -1
    ELSE (IF a % 2 = 1 \/ b % 2 = 1 THEN 1 ELSE 0) + 2 * BitOr(a \div 2, b \div 2)

\* a << n on 32-bit ints: the bits shifted out are lost, bit 31 is the sign
Shl(a, n) ==
    LET low == a % Pow2(32 - n)
    IN  IF low >= Pow2(31 - n) THEN (low - Pow2(32 - n)) * Pow2(n) ELSE low * Pow2(n)

\* a & 0xffff and a & 0xff
BitAnd16(a) == a % Pow2(16)
BitAnd8(a) == a % Pow2(8)

Min2(a, b) == IF a < b THEN a ELSE b
Max2(a, b) == IF a > b THEN a ELSE b

\* ------------------------------------------------- the transport's answers
\* What SNDCTL_MIX_EXTINFO reports for one control: its kind, its native
\* range, and whether its id matches "@pcm%d".
ZeroInfo == [type |-> ZeroType, minvalue |-> 0, maxvalue |-> 0, vmix |-> FALSE]

MkInfo(t, lo, hi, v) == [type |-> t, minvalue |-> lo, maxvalue |-> hi, vmix |-> v]

\* Navigation family: both navigable kinds, both groups, inert controls of
\* both groups; one range.
NavInfos ==
    { MkInfo("MIXT_STEREOSLIDER", 0, 100, FALSE), MkInfo("MIXT_STEREOSLIDER16", 0, 100, TRUE),
      MkInfo(InertType, 0, 100, FALSE), MkInfo(InertType, 0, 100, TRUE) }

\* Codec family: both navigable kinds over several native ranges.
VolRanges == { <<0, 100>>, <<0, 200>>, <<0, 255>>, <<10, 20>>, <<-1, 99>>, <<0, 1000>> }
VolInfos == { MkInfo(t, r[1], r[2], FALSE) : t \in NavTypes, r \in VolRanges }
\* Packed values the transport may hold at startup: left samples 0, 20, 97
\* and 255 with a zero right channel, and 0x6464 (left 100, right 100 in
\* 8-bit fields).
VolRaw == { 0, 20, 97, 255, 25700 }

PadInfo(f, n) == [e \in Slots |-> IF e < n THEN f[e] ELSE ZeroInfo]

\* One device as the transport describes it (SNDCTL_MIXERINFO and, for an
\* enabled device, SNDCTL_MIX_EXTINFO of each of its nrext controls).
DevConfigs(infos) ==
    { [enabled |-> FALSE, nrext |-> n, info |-> [e \in Slots |-> ZeroInfo]] : n \in 0 .. MaxExt }
    \cup UNION { { [enabled |-> TRUE, nrext |-> n, info |-> PadInfo(f, n)] :
                     f \in [0 .. (n - 1) -> infos] } : n \in 0 .. MaxExt }

NoDev == [enabled |-> FALSE, nrext |-> 0, info |-> [e \in Slots |-> ZeroInfo]]

PadDevs(f, n) == [m \in Devs |-> IF m < n THEN f[m] ELSE NoDev]

HwConfigs(infos) ==
    UNION { { [nb |-> n, dev |-> PadDevs(f, n)] :
                f \in [0 .. (n - 1) -> DevConfigs(infos)] } : n \in 0 .. MaxMixers }

\* One enabled device with two controls: the first of any codec kind and
\* range, the second an inert switch.
VolConfigs ==
    { [nb |-> 1,
       dev |-> PadDevs([m \in {0} |->
                  [enabled |-> TRUE, nrext |-> 2,
                   info |-> PadInfo([e \in 0 .. 1 |->
                              IF e = 0 THEN i
                              ELSE MkInfo(InertType, 0, 1, FALSE)], 2)]], 1)] :
        i \in VolInfos }

\* Two enabled devices: two full-range sliders, one of each group, on the
\* first and one 16-bit slider on the second.
PairConfig ==
    [nb |-> 2,
     dev |-> PadDevs([m \in 0 .. 1 |->
                IF m = 0
                THEN [enabled |-> TRUE, nrext |-> 2,
                      info |-> PadInfo([e \in 0 .. 1 |->
                                 IF e = 0 THEN MkInfo("MIXT_STEREOSLIDER", 0, 100, FALSE)
                                 ELSE MkInfo("MIXT_STEREOSLIDER16", 0, 100, TRUE)], 2)]
                ELSE [enabled |-> TRUE, nrext |-> 1,
                      info |-> PadInfo([e \in {0} |->
                                 MkInfo("MIXT_STEREOSLIDER16", 0, 200, FALSE)], 1)]], 2)]

\* One enabled device with a full-range 16-bit slider, followed by a
\* disabled device (e.g. a disconnected USB device).
SpareConfig ==
    [nb |-> 2,
     dev |-> PadDevs([m \in 0 .. 1 |->
                [enabled |-> (m = 0), nrext |-> 1,
                 info |-> PadInfo([e \in {0} |->
                            MkInfo("MIXT_STEREOSLIDER16", 0, 100, FALSE)], 1)]], 2)]

\* One enabled device with three full-range sliders: control 0 and control
\* 2 of the Device group, control 1 of the VirtualMix group.
TripleConfig ==
    [nb |-> 1,
     dev |-> PadDevs([m \in {0} |->
                [enabled |-> TRUE, nrext |-> 3,
                 info |-> PadInfo([e \in 0 .. 2 |->
                            IF e = 1 THEN MkInfo("MIXT_STEREOSLIDER16", 0, 100, TRUE)
                            ELSE MkInfo("MIXT_STEREOSLIDER", 0, 100, FALSE)], 3)]], 1)]

\* ------------------------------------------------------------------ state
VARIABLES
    hw,         \* the devices and controls the transport describes (fixed)
    tv,         \* the transport's packed value of each (device, control)
    pc,         \* where main is
    lm,         \* load_mixers: the loop index m
    nb_mixers,  \* static int nb_mixers
    mixers,     \* the struct mixer array (mixers[m])
    ctl,        \* the struct control storage at mixers->controls
    freed,      \* free_mixers has released mixers and the control arrays
    uaf,        \* released storage was accessed, or released twice
    overflow,   \* a control was written past the end of mixers[0].controls
    disp,       \* the percentage last printed for each control by draw_control
    wr,         \* the last SNDCTL_MIX_WRITE issued
    nwr,        \* the number of SNDCTL_MIX_WRITE calls issued
    loadfail,   \* SNDCTL_MIXERINFO or SNDCTL_MIX_EXTINFO failed in load_mixers
    kbd,        \* the keys the user types in this session (fixed)
    key,        \* the key getch() returned in this iteration ("none": no key)
    rds,        \* the controls the last step issued SNDCTL_MIX_READ for
    rdf,        \* those of them whose SNDCTL_MIX_READ failed
    uierr       \* the last step called set_ui_error

vars == << hw, tv, pc, lm, nb_mixers, mixers, ctl, freed, uaf, overflow, disp, wr, nwr,
           loadfail, kbd, key, rds, rdf, uierr >>

\* calloc: all bytes zero
ZeroControl ==
    [dev |-> 0, ctrl |-> 0, type |-> ZeroType, minvalue |-> 0, maxvalue |-> 0,
     is_vmix |-> 0, needs_redraw |-> 0, ui_prev |-> NULL, ui_next |-> NULL]

ZeroMixer ==
    [dev |-> 0, enabled |-> FALSE, nb_controls |-> 0,
     ui_dev_controls |-> NULL, ui_vmix_controls |-> NULL, ui_curr_control |-> NULL]

NoDisp == -1000
NoWrite == [dev |-> -1, ctrl |-> -1, value |-> 0, ok |-> FALSE, volume |-> -1, base |-> -1]

DigitKeys == {"0", "1", "2", "3", "4", "5", "6", "7", "8", "9"}
DigitVal ==
    "0" :> 0 @@ "1" :> 1 @@ "2" :> 2 @@ "3" :> 3 @@ "4" :> 4 @@
    "5" :> 5 @@ "6" :> 6 @@ "7" :> 7 @@ "8" :> 8 @@ "9" :> 9
\* "x" stands for every key the switch of main has no case for
Keys == {"q", "j", "k", "h", "l", "x"} \cup DigitKeys

InitWith(configs, raws, keys) ==
    /\ hw \in configs
    /\ tv \in { [m \in Devs |-> [e \in Slots |-> IF m = 0 /\ e = 0 THEN r ELSE 0]] : r \in raws }
    /\ pc = "start"
    /\ lm = 0
    /\ nb_mixers = 0
    /\ mixers = [m \in Devs |-> ZeroMixer]
    /\ ctl = [e \in Slots |-> ZeroControl]
    /\ freed = FALSE
    /\ uaf = FALSE
    /\ overflow = FALSE
    /\ disp = [e \in Slots |-> NoDisp]
    /\ wr = NoWrite
    /\ nwr = 0
    /\ loadfail = FALSE
    /\ kbd = keys
    /\ key = "none"
    /\ rds = {}
    /\ rdf = {}
    /\ uierr = FALSE

\* the keys that move the selection, the quit key and a key without a case
NavKeys == {"q", "j", "k", "x"}

\* Navigation family.  With at most one device the user types navigation
\* and volume keys; with more devices, navigation keys.
Init ==
    \/ InitWith({ h \in HwConfigs(NavInfos) : h.nb < MaxMixers } \cup {TripleConfig}, {0},
                NavKeys \cup {"l", "7"})
    \/ InitWith({ h \in HwConfigs(NavInfos) : h.nb = MaxMixers }, {0}, NavKeys)

\* Codec family.  The step keys start from every startup value, the digit
\* keys (which do not read the value) from the value 0; the two
\* configurations with two devices see every key.
InitVol ==
    \/ InitWith(VolConfigs, VolRaw, {"h", "l"})
    \/ InitWith(VolConfigs, {0}, DigitKeys)
    \/ InitWith({PairConfig, SpareConfig}, {0}, Keys)

\* ------------------------------------------------------------- load_mixers
Touch == freed      \* an access to mixers or to a control array now is a use after free

\* free_mixers(): releases every control array and the mixer array; does
\* nothing while nb_mixers is 0.  A second call releases them twice.
free_mixers ==
    IF nb_mixers = 0
    THEN [freed |-> freed, uaf |-> uaf]
    ELSE [freed |-> TRUE, uaf |-> uaf \/ freed]

\* The body of the inner loop of load_mixers for control e of device m once
\* SNDCTL_MIX_EXTINFO has succeeded: st.c is the control storage, st.dev
\* and st.vmix are mixer->ui_dev_controls and mixer->ui_vmix_controls.
LinkControl(st, m, e) ==
    LET info == hw.dev[m].info[e]
        vm == IF info.vmix THEN 1 ELSE st.c[e].is_vmix
        c1 == [st.c EXCEPT ![e] = [@ EXCEPT !.dev = m, !.ctrl = e,
                                            !.type = info.type,
                                            !.minvalue = info.minvalue,
                                            !.maxvalue = info.maxvalue,
                                            !.is_vmix = vm,
                                            !.needs_redraw = 1]]
    IN  IF info.type \in NavTypes
        THEN IF vm # 0
             THEN LET c2 == IF st.vmix # NULL
                            THEN [c1 EXCEPT ![st.vmix].ui_prev = e] ELSE c1
                  IN  [st EXCEPT !.c = [c2 EXCEPT ![e].ui_next = st.vmix], !.vmix = e]
             ELSE LET c2 == IF st.dev # NULL
                            THEN [c1 EXCEPT ![st.dev].ui_prev = e] ELSE c1
                  IN  [st EXCEPT !.c = [c2 EXCEPT ![e].ui_next = st.dev], !.dev = e]
        ELSE [st EXCEPT !.c = c1]

\* The inner loop from control e on; SNDCTL_MIX_EXTINFO fails at control
\* failAt (NULL: never).  The failing iteration has already stored dev and
\* ctrl in the control; it leaves the loop with break.
RECURSIVE LoadControls(_, _, _, _, _)
LoadControls(st, m, e, n, failAt) ==
    IF e >= n THEN st
    ELSE IF e = failAt
         THEN [st EXCEPT !.c = [@ EXCEPT ![e] = [@ EXCEPT !.dev = m, !.ctrl = e]],
                         !.failed = TRUE]
         ELSE LoadControls(LinkControl(st, m, e), m, e + 1, n, failAt)

\* reverse_control_list(plist) from list element curr on
RECURSIVE ReverseFrom(_, _, _)
ReverseFrom(c, head, curr) ==
    IF curr = NULL THEN [c |-> c, head |-> head]
    ELSE LET temp == c[curr].ui_next
         IN  ReverseFrom([c EXCEPT ![curr] = [@ EXCEPT !.ui_next = c[curr].ui_prev,
                                                      !.ui_prev = temp]],
                         curr, temp)

reverse_control_list(c, head) == ReverseFrom(c, head, head)

\* Does the inner loop of device m write a control past mixers[0].controls?
\* (mixers[0].nb_controls is read from the mixer array as it is when the
\* loop runs.)
Overflows(m, n, failAt, nb0) ==
    \E e \in 0 .. (n - 1) : e >= nb0 /\ (failAt = NULL \/ e <= failAt)

\* ------------------------------------------------------------ volume codec
get_control_volume_nomask(c, rd) ==
    IF ~rd.ok THEN -1
    ELSE LET vleft == IF c.type \in NavTypes THEN rd.value ELSE 0
         IN  c.minvalue + CDiv(vleft * 100, c.maxvalue - c.minvalue)

\* get_control_volume(ctrl): rd is the result of SNDCTL_MIX_READ
get_control_volume(c, rd) ==
    IF ~rd.ok THEN -1
    ELSE LET vleft == IF c.type = "MIXT_STEREOSLIDER" THEN BitAnd8(rd.value)
                      ELSE IF c.type = "MIXT_STEREOSLIDER16" THEN BitAnd16(rd.value)
                      ELSE 0
         IN  c.minvalue + CDiv(vleft * 100, c.maxvalue - c.minvalue)

\* set_control_volume as it would be if only the left channel were packed
set_control_volume_left(c, volume) ==
    LET vleft == c.minvalue + CDiv(volume * (c.maxvalue - c.minvalue), 100)
    IN  IF c.type \in NavTypes THEN vleft ELSE 0

\* set_control_volume(ctrl, volume): the packed value handed to SNDCTL_MIX_WRITE
set_control_volume(c, volume) ==
    LET vleft == c.minvalue + CDiv(volume * (c.maxvalue - c.minvalue), 100)
        vright == vleft
    IN  IF c.type = "MIXT_STEREOSLIDER" THEN BitOr(vleft, Shl(vright, 8))
        ELSE IF c.type = "MIXT_STEREOSLIDER16" THEN BitOr(vleft, Shl(vright, 16))
        ELSE 0

\* main sets cur_mixer = &mixers[0] and never changes it
cur_mixer == 0

\* ------------------------------------------------------------------ draw_ui
\* draw_control as it would be if a failed read still cleared needs_redraw
draw_control_clear(st, p, F) ==
    IF st.c[p].needs_redraw = 0 THEN st
    ELSE LET rd == [ok |-> p \notin F, value |-> tv[mixers[cur_mixer].dev][st.c[p].ctrl]]
             volume == get_control_volume(st.c[p], rd)
         IN  IF volume = -1
             THEN [st EXCEPT !.reads = @ \cup {p},
                             !.failed = IF rd.ok THEN @ ELSE @ \cup {p},
                             !.err = @ \/ ~rd.ok,
                             !.c = [@ EXCEPT ![p] = [@ EXCEPT !.needs_redraw = 0]]]
             ELSE [st EXCEPT !.reads = @ \cup {p},
                             !.disp = [@ EXCEPT ![p] = volume],
                             !.c = [@ EXCEPT ![p] = [@ EXCEPT !.needs_redraw = 0]]]

\* draw_control(ctrl, ...): st.c is the control storage, st.disp the
\* percentages on screen, st.reads the controls read through the transport
\* in this pass, st.failed those whose read failed, st.err whether
\* get_control_volume called set_ui_error; F are the controls whose
\* SNDCTL_MIX_READ fails in this pass.
draw_control(st, p, F) ==
    IF st.c[p].needs_redraw = 0 THEN st
    ELSE LET rd == [ok |-> p \notin F, value |-> tv[mixers[cur_mixer].dev][st.c[p].ctrl]]
             volume == get_control_volume(st.c[p], rd)
         IN  IF volume = -1
             THEN [st EXCEPT !.reads = @ \cup {p},
                             !.failed = IF rd.ok THEN @ ELSE @ \cup {p},
                             !.err = @ \/ ~rd.ok]
             ELSE [st EXCEPT !.reads = @ \cup {p},
                             !.disp = [@ EXCEPT ![p] = volume],
                             !.c = [@ EXCEPT ![p] = [@ EXCEPT !.needs_redraw = 0]]]

\* One for loop of draw_ui from list element p on.  A list of more than
\* MaxCtrls elements is cyclic: the loop never ends.
RECURSIVE DrawFrom(_, _, _, _)
DrawFrom(st, p, fuel, F) ==
    IF p = NULL THEN st
    ELSE IF fuel = 0 THEN [st EXCEPT !.hung = TRUE]
    ELSE DrawFrom(draw_control(st, p, F), st.c[p].ui_next, fuel - 1, F)

draw_ui(c, d, F) ==
    LET st0 == [c |-> c, disp |-> d, reads |-> {}, failed |-> {}, err |-> FALSE,
                hung |-> FALSE]
        st1 == DrawFrom(st0, mixers[cur_mixer].ui_dev_controls, MaxCtrls, F)
    IN  IF st1.hung THEN st1
        ELSE DrawFrom(st1, mixers[cur_mixer].ui_vmix_controls, MaxCtrls, F)

\* The controls a for loop of draw_ui reaches from list element p
RECURSIVE ListFrom(_, _, _)
ListFrom(c, p, fuel) ==
    IF p = NULL \/ fuel = 0 THEN {}
    ELSE {p} \cup ListFrom(c, c[p].ui_next, fuel - 1)

\* The controls draw_ui may read: those of the two lists of cur_mixer
Listed(c) ==
    ListFrom(c, mixers[cur_mixer].ui_dev_controls, MaxCtrls)
    \cup ListFrom(c, mixers[cur_mixer].ui_vmix_controls, MaxCtrls)

\* The sets of controls whose SNDCTL_MIX_READ may fail in one pass of draw_ui
ReadFailures(c) == { F \in SUBSET Listed(c) : Cardinality(F) <= MaxFail }

\* ------------------------------------------------------- load_mixers steps
Exit ==
    /\ pc' = "exited"
    /\ UNCHANGED << hw, tv, lm, mixers, ctl, overflow, disp, wr, nwr, loadfail, kbd, key, rds, rdf, uierr >>

\* SNDCTL_MIX_NRMIX fails, or reports no mixer, or calloc of mixers fails:
\* load_mixers returns -1 and main exits.
LoadStartFail ==
    /\ pc = "start"
    /\ \E why \in {"ioctl", "alloc"} \cup (IF hw.nb = 0 THEN {"none"} ELSE {}) :
          /\ why = "alloc" => hw.nb > 0
          /\ nb_mixers' = IF why = "ioctl" THEN nb_mixers ELSE hw.nb
    /\ UNCHANGED << freed, uaf >>
    /\ Exit

LoadStart ==
    /\ pc = "start"
    /\ hw.nb > 0
    /\ nb_mixers' = hw.nb
    /\ pc' = "load"
    /\ lm' = 0
    /\ UNCHANGED << hw, tv, mixers, ctl, freed, uaf, overflow, disp, wr, nwr, loadfail, kbd, key, rds, rdf, uierr >>

\* SNDCTL_MIXERINFO of device lm fails: free_mixers, return -1
LoadMixerInfoFail ==
    /\ pc = "load"
    /\ lm < nb_mixers
    /\ freed' = free_mixers.freed
    /\ uaf' = (free_mixers.uaf \/ Touch)
    /\ pc' = "exited"
    /\ mixers' = [mixers EXCEPT ![lm].dev = lm]
    /\ loadfail' = TRUE
    /\ UNCHANGED << hw, tv, lm, nb_mixers, ctl, overflow, disp, wr, nwr, kbd, key, rds, rdf, uierr >>

\* mixers[lm] after SNDCTL_MIXERINFO succeeded and nb_controls was set
MixerInfo(m) ==
    [mixers[m] EXCEPT !.dev = m, !.enabled = hw.dev[m].enabled,
                      !.nb_controls = hw.dev[m].nrext]

\* calloc of the control array of device lm fails: free_mixers, return -1
LoadControlsAllocFail ==
    /\ pc = "load"
    /\ lm < nb_mixers
    /\ freed' = free_mixers.freed
    /\ uaf' = (free_mixers.uaf \/ Touch)
    /\ pc' = "exited"
    /\ mixers' = [mixers EXCEPT ![lm] = MixerInfo(lm)]
    /\ UNCHANGED << hw, tv, lm, nb_mixers, ctl, overflow, disp, wr, nwr, loadfail, kbd, key, rds, rdf, uierr >>

\* a disabled device: its control array is allocated and left as it is
LoadMixerDisabled ==
    /\ pc = "load"
    /\ lm < nb_mixers
    /\ ~hw.dev[lm].enabled
    /\ mixers' = [mixers EXCEPT ![lm] = MixerInfo(lm)]
    /\ lm' = lm + 1
    /\ uaf' = (uaf \/ Touch)
    /\ UNCHANGED << hw, tv, pc, nb_mixers, ctl, freed, overflow, disp, wr, nwr, loadfail, kbd, key, rds, rdf, uierr >>

\* an enabled device: the inner loop over its controls, the two list
\* reversals and the initial selection.  When SNDCTL_MIX_EXTINFO fails the
\* loop calls free_mixers and breaks; the reversals and the outer loop go on.
LoadMixerControls ==
    /\ pc = "load"
    /\ lm < nb_mixers
    /\ hw.dev[lm].enabled
    /\ \E failAt \in (0 .. (hw.dev[lm].nrext - 1)) \cup {NULL} :
          LET mi == MixerInfo(lm)
              nb0 == IF lm = 0 THEN mi.nb_controls ELSE mixers[0].nb_controls
              st0 == [c |-> ctl, dev |-> mi.ui_dev_controls,
                      vmix |-> mi.ui_vmix_controls, failed |-> FALSE]
              st1 == LoadControls(st0, lm, 0, mi.nb_controls, failAt)
              fr == IF st1.failed THEN free_mixers ELSE [freed |-> freed, uaf |-> uaf]
              r1 == reverse_control_list(st1.c, st1.dev)
              r2 == reverse_control_list(r1.c, st1.vmix)
          IN  /\ ctl' = r2.c
              /\ mixers' = [mixers EXCEPT ![lm] =
                               [mi EXCEPT !.ui_dev_controls = r1.head,
                                          !.ui_vmix_controls = r2.head,
                                          !.ui_curr_control = r1.head]]
              /\ freed' = fr.freed
              /\ uaf' = (fr.uaf \/ fr.freed)
              /\ overflow' = (overflow \/ Overflows(lm, mi.nb_controls, failAt, nb0))
              /\ loadfail' = (loadfail \/ st1.failed)
    /\ lm' = lm + 1
    /\ UNCHANGED << hw, tv, pc, nb_mixers, disp, wr, nwr, kbd, key, rds, rdf, uierr >>

\* load_mixers returns 0; main selects mixers[0], starts the UI and draws
\* it once before the poll loop.
LoadReturn ==
    /\ pc = "load"
    /\ lm = nb_mixers
    /\ \E F \in ReadFailures(ctl) :
          LET d == draw_ui(ctl, disp, F)
          IN  /\ ctl' = d.c
              /\ disp' = d.disp
              /\ pc' = IF d.hung THEN "hung" ELSE "loop"
              /\ rds' = d.reads /\ rdf' = d.failed /\ uierr' = d.err
    /\ uaf' = (uaf \/ Touch)
    /\ UNCHANGED << hw, tv, lm, nb_mixers, mixers, freed, overflow, wr, nwr, loadfail, kbd, key >>

\* ---------------------------------------------------------------- poll loop
Running == pc \in {"load", "loop", "dispatch", "done"}

\* The process is killed: its memory is gone.
Killed ==
    /\ pc' = "crashed"
    /\ mixers' = [m \in Devs |-> ZeroMixer]
    /\ ctl' = [e \in Slots |-> ZeroControl]
    /\ disp' = [e \in Slots |-> NoDisp]
    /\ lm' = 0
    /\ key' = "none"
    /\ rds' = {} /\ rdf' = {} /\ uierr' = FALSE
    /\ UNCHANGED << hw, tv, nb_mixers, freed, uaf, overflow, wr, nwr, loadfail, kbd >>

\* An access to released storage or a write past the control array may
\* also kill the process.
Fault ==
    /\ Running
    /\ uaf \/ overflow
    /\ Killed

\* a null pointer dereference
NullDeref == Killed

\* select() fails with EINTR: continue
PollInterrupted ==
    /\ pc = "loop"
    /\ UNCHANGED vars

\* the loop of main that sets needs_redraw of every control of cur_mixer
MarkAll(c) ==
    [e \in Slots |-> IF e < mixers[cur_mixer].nb_controls
                     THEN [c[e] EXCEPT !.needs_redraw = 1] ELSE c[e]]

\* One iteration up to the switch: select() returns, every control of
\* cur_mixer is marked and draw_ui runs.  select() leaves stdin clear in
\* readfds after a timeout; stdin is set after a key press and after an
\* error other than EINTR (which leaves readfds as
\* it was passed in): getch() then returns the key k.  k = "none" is the
\* timeout.
PollStep ==
    /\ pc = "loop"
    /\ \E k \in kbd \cup {"none"}, F \in ReadFailures(ctl) :
          LET d == draw_ui(MarkAll(ctl), disp, F)
          IN  /\ ctl' = d.c
              /\ disp' = d.disp
              /\ pc' = IF d.hung THEN "hung"
                       ELSE IF k = "none" THEN "loop" ELSE "dispatch"
              /\ key' = IF d.hung THEN "none" ELSE k
              /\ rds' = d.reads /\ rdf' = d.failed /\ uierr' = d.err
    /\ uaf' = (uaf \/ Touch)
    /\ UNCHANGED << hw, tv, lm, nb_mixers, mixers, freed, overflow, wr, nwr, loadfail, kbd >>

\* case 'q': stop = 1; the loop ends, free_ui, free_mixers, close
KeyQuit ==
    /\ pc = "dispatch"
    /\ key = "q"
    /\ freed' = free_mixers.freed
    /\ uaf' = (free_mixers.uaf \/ Touch)
    /\ pc' = "done"
    /\ rds' = {} /\ rdf' = {} /\ uierr' = FALSE
    /\ UNCHANGED << hw, tv, lm, nb_mixers, mixers, ctl, overflow, disp, wr, nwr, loadfail, kbd, key >>

\* a key without a case
KeyOther ==
    /\ pc = "dispatch"
    /\ key = "x"
    /\ pc' = "loop"
    /\ rds' = {} /\ rdf' = {} /\ uierr' = FALSE
    /\ UNCHANGED << hw, tv, lm, nb_mixers, mixers, ctl, freed, uaf, overflow, disp, wr, nwr,
                    loadfail, kbd, key >>

\* the tail of move_to_next_control / move_to_previous_control: when a
\* target was found, select it, mark the old and the new control, draw_ui
MoveTo(curr, target) ==
    IF target = NULL
    THEN /\ pc' = "loop"
         /\ rds' = {} /\ rdf' = {} /\ uierr' = FALSE
         /\ UNCHANGED << mixers, ctl, disp >>
    ELSE /\ mixers' = [mixers EXCEPT ![cur_mixer].ui_curr_control = target]
         /\ \E F \in ReadFailures(ctl) :
               LET c1 == [ctl EXCEPT ![curr] = [@ EXCEPT !.needs_redraw = 1]]
                   c2 == [c1 EXCEPT ![target] = [@ EXCEPT !.needs_redraw = 1]]
                   d == draw_ui(c2, disp, F)
               IN  /\ ctl' = d.c
                   /\ disp' = d.disp
                   /\ pc' = IF d.hung THEN "hung" ELSE "loop"
                   /\ rds' = d.reads /\ rdf' = d.failed /\ uierr' = d.err

\* move_to_next_control: the control it looks for
next_control(curr) ==
    IF ctl[curr].ui_next # NULL THEN ctl[curr].ui_next
    ELSE IF ctl[curr].is_vmix = 0 THEN mixers[cur_mixer].ui_vmix_controls
    ELSE NULL

\* case 'j'
move_to_next_control ==
    /\ pc = "dispatch"
    /\ key = "j"
    /\ LET curr == mixers[cur_mixer].ui_curr_control
       IN  IF curr = NULL THEN NullDeref
           ELSE /\ MoveTo(curr, next_control(curr))
                /\ uaf' = (uaf \/ Touch)
                /\ UNCHANGED << hw, tv, lm, nb_mixers, freed, overflow, wr, nwr, loadfail, kbd, key >>

\* while (prev->ui_next) prev = prev->ui_next; the walk from p
RECURSIVE LastFrom(_, _)
LastFrom(p, fuel) ==
    IF ctl[p].ui_next = NULL THEN [res |-> "ok", p |-> p]
    ELSE IF fuel = 0 THEN [res |-> "hang", p |-> p]
    ELSE LastFrom(ctl[p].ui_next, fuel - 1)

\* move_to_previous_control: the control it looks for
previous_control(curr) ==
    IF ctl[curr].ui_prev # NULL THEN [res |-> "ok", p |-> ctl[curr].ui_prev]
    ELSE IF ctl[curr].is_vmix # 0
         THEN IF mixers[cur_mixer].ui_dev_controls = NULL
              THEN [res |-> "null", p |-> NULL]
              ELSE LastFrom(mixers[cur_mixer].ui_dev_controls, MaxCtrls)
    ELSE [res |-> "ok", p |-> NULL]

\* case 'k'
move_to_previous_control ==
    /\ pc = "dispatch"
    /\ key = "k"
    /\ LET curr == mixers[cur_mixer].ui_curr_control
       IN  IF curr = NULL THEN NullDeref
           ELSE LET t == previous_control(curr)
                IN  IF t.res = "null" THEN NullDeref
                    ELSE IF t.res = "hang"
                    THEN /\ pc' = "hung"
                         /\ rds' = {} /\ rdf' = {} /\ uierr' = FALSE
                         /\ UNCHANGED << hw, tv, lm, nb_mixers, mixers, ctl, freed, uaf,
                                         overflow, disp, wr, nwr, loadfail, kbd, key >>
                    ELSE /\ MoveTo(curr, t.p)
                         /\ uaf' = (uaf \/ Touch)
                         /\ UNCHANGED << hw, tv, lm, nb_mixers, freed, overflow, wr, nwr,
                                         loadfail, kbd, key >>

\* modify_volume: inc = sign * (100 / gauge_width)
volume_step(sign) == sign * CDiv(100, gauge_width)

modify_volume_noclamp(volume) == IF volume < 0 THEN 0 ELSE volume

\* modify_volume: the clamp of the stepped percentage to [0, 100]
modify_volume_clamp(volume) ==
    IF volume < 0 THEN 0 ELSE IF volume > 100 THEN 100 ELSE volume

\* set_volume: the clamp of its argument to [0, 100]
set_volume_clamp(volume) ==
    IF volume < 0 THEN 0 ELSE IF volume > 100 THEN 100 ELSE volume

digit_volume_units(k) == DigitVal[k]

\* main: set_volume(0) for '0', set_volume((c - '0') * 10) for '1' .. '9'
digit_volume(k) == IF k = "0" THEN 0 ELSE DigitVal[k] * 10

\* SNDCTL_MIX_WRITE of the packed value for the percentage volume, to the
\* control ctrl of cur_mixer; base is the percentage a step started from
TransportWrite(ctrl, volume, base) ==
    \E ok \in BOOLEAN :
       LET d == mixers[cur_mixer].dev
           e == ctl[ctrl].ctrl
           v == set_control_volume(ctl[ctrl], volume)
       IN  /\ wr' = [dev |-> d, ctrl |-> e, value |-> v, ok |-> ok,
                     volume |-> volume, base |-> base]
           /\ nwr' = nwr + 1
           /\ tv' = IF ok THEN [tv EXCEPT ![d] = [@ EXCEPT ![e] = v]] ELSE tv

\* modify_volume(sign): case 'h' (sign -1) and case 'l' (sign 1)
modify_volume ==
    /\ pc = "dispatch"
    /\ key \in {"h", "l"}
    /\ nwr < MaxWrites
    /\ LET ctrl == mixers[cur_mixer].ui_curr_control
           sign == IF key = "h" THEN -1 ELSE 1
           inc == volume_step(sign)
       IN  IF ctrl = NULL THEN NullDeref
           ELSE \E rdok \in BOOLEAN :
                  LET rd == [ok |-> rdok, value |-> tv[mixers[cur_mixer].dev][ctl[ctrl].ctrl]]
                      volume == get_control_volume(ctl[ctrl], rd)
                      v1 == volume + inc
                      v2 == modify_volume_clamp(v1)
                  IN  /\ IF volume = -1
                         THEN UNCHANGED << tv, wr, nwr >>
                         ELSE TransportWrite(ctrl, v2, volume)
                      /\ pc' = "loop"
                      /\ rds' = {ctrl}
                      /\ rdf' = IF rdok THEN {} ELSE {ctrl}
                      /\ uierr' = (~rdok \/ (volume # -1 /\ ~wr'.ok))
                      /\ uaf' = (uaf \/ Touch)
                      /\ UNCHANGED << hw, lm, nb_mixers, mixers, ctl, freed, overflow, disp,
                                      loadfail, kbd, key >>

\* set_volume(volume): case '0' .. case '9' with volume (c - '0') * 10
set_volume ==
    /\ pc = "dispatch"
    /\ key \in DigitKeys
    /\ nwr < MaxWrites
    /\ LET ctrl == mixers[cur_mixer].ui_curr_control
           volume == digit_volume(key)
           v2 == set_volume_clamp(volume)
       IN  IF ctrl = NULL THEN NullDeref
           ELSE /\ TransportWrite(ctrl, v2, -1)
                /\ pc' = "loop"
                /\ rds' = {} /\ rdf' = {} /\ uierr' = ~wr'.ok
                /\ uaf' = (uaf \/ Touch)
                /\ UNCHANGED << hw, lm, nb_mixers, mixers, ctl, freed, overflow, disp,
                                loadfail, kbd, key >>

Next ==
    \/ LoadStartFail
    \/ LoadStart
    \/ LoadMixerInfoFail
    \/ LoadControlsAllocFail
    \/ LoadMixerDisabled
    \/ LoadMixerControls
    \/ LoadReturn
    \/ Fault
    \/ PollInterrupted
    \/ PollStep
    \/ KeyQuit
    \/ KeyOther
    \/ move_to_next_control
    \/ move_to_previous_control
    \/ modify_volume
    \/ set_volume

Spec == Init /\ [][Next]_vars

SpecVol == InitVol /\ [][Next]_vars

\* ------------------------------------------------------- what was loaded
\* The poll loop runs after a load in which every transport call succeeded
\* and no control was written past the control array.
Loaded == pc \in {"loop", "dispatch"} /\ ~loadfail /\ ~overflow

current == mixers[cur_mixer].ui_curr_control

RECURSIVE AscSeq(_)
AscSeq(S) ==
    IF S = {} THEN << >>
    ELSE LET x == CHOOSE x \in S : \A y \in S : x <= y
         IN  << x >> \o AscSeq(S \ {x})

RevSeq(q) == [i \in 1 .. Len(q) |-> q[Len(q) + 1 - i]]

\* The navigable controls of device m as the transport describes them
IsNavigable(m, e) ==
    /\ m < hw.nb /\ hw.dev[m].enabled /\ e < hw.dev[m].nrext
    /\ hw.dev[m].info[e].type \in NavTypes
NavDevice(m) == { e \in Slots : IsNavigable(m, e) /\ ~hw.dev[m].info[e].vmix }
NavVirtual(m) == { e \in Slots : IsNavigable(m, e) /\ hw.dev[m].info[e].vmix }
NavOrder(m) == AscSeq(NavDevice(m)) \o AscSeq(NavVirtual(m))

\* The selection after one more move_to_next_control from the selection p
StepNext(p) ==
    IF p = NULL THEN NULL
    ELSE IF next_control(p) = NULL THEN p ELSE next_control(p)

\* The selection after one more move_to_previous_control (NULL: it does
\* not return)
StepPrev(p) ==
    IF p = NULL THEN NULL
    ELSE LET t == previous_control(p)
         IN  IF t.res # "ok" THEN NULL ELSE IF t.p = NULL THEN p ELSE t.p

\* The selections of k successive moves from p
RECURSIVE NextRun(_, _)
NextRun(p, k) == IF k = 0 THEN << >> ELSE << StepNext(p) >> \o NextRun(StepNext(p), k - 1)

RECURSIVE PrevRun(_, _)
PrevRun(p, k) == IF k = 0 THEN << >> ELSE << StepPrev(p) >> \o PrevRun(StepPrev(p), k - 1)

\* C1: with the selection at the head of the non-empty Device list of the
\* current device, successive move_next select the navigable Device
\* controls of the device in ascending index order, then its VirtualMix
\* controls in ascending index order, and further move_next leave the
\* selection at the last of them.
C1_NextVisitsAll ==
    (Loaded /\ current # NULL /\ current = mixers[cur_mixer].ui_dev_controls)
    => LET ord == NavOrder(cur_mixer)
       IN  /\ ord # << >>
           /\ << current >> \o NextRun(current, Len(ord) + 1)
                = ord \o << ord[Len(ord)], ord[Len(ord)] >>

\* the last control of the VirtualMix list of the current device
VmixTail ==
    IF mixers[cur_mixer].ui_vmix_controls = NULL THEN NULL
    ELSE LET t == LastFrom(mixers[cur_mixer].ui_vmix_controls, MaxCtrls)
         IN  IF t.res = "ok" THEN t.p ELSE NULL

\* C2: with the selection at the tail of the VirtualMix list of the
\* current device, successive move_previous select the VirtualMix controls
\* in descending index order, then the Device controls in descending index
\* order down to the Device head, and further move_previous leave the
\* selection there.
C2_PrevVisitsAll ==
    (Loaded /\ current # NULL /\ current = VmixTail)
    => LET ord == NavOrder(cur_mixer)
       IN  /\ ord # << >>
           /\ << current >> \o PrevRun(current, Len(ord) + 1)
                = RevSeq(ord) \o << ord[1], ord[1] >>

\* Control e of device m is the record whose info names device m and
\* control e; the records reachable from the list heads of device m.
AddrOf(m, e) == << m, e >>
ReachDevice(m) ==
    { << ctl[p].dev, ctl[p].ctrl >> : p \in ListFrom(ctl, mixers[m].ui_dev_controls, MaxCtrls) }
ReachVirtual(m) ==
    { << ctl[p].dev, ctl[p].ctrl >> : p \in ListFrom(ctl, mixers[m].ui_vmix_controls, MaxCtrls) }

\* C3: after a successful load every navigable control of an enabled device
\* is reachable from exactly one list head of its own device, the one of
\* its group, and from no list head of another device; an inert control is
\* reachable from no list head.
C3_ListMembership ==
    Loaded =>
      \A m \in Devs : \A e \in Slots :
         (m < hw.nb /\ e < hw.dev[m].nrext) =>
            LET a == AddrOf(m, e)
            IN  IF IsNavigable(m, e)
                THEN /\ (a \in ReachDevice(m)) = ~hw.dev[m].info[e].vmix
                     /\ (a \in ReachVirtual(m)) = hw.dev[m].info[e].vmix
                     /\ \A o \in Devs \ {m} : a \notin ReachDevice(o) \cup ReachVirtual(o)
                ELSE \A o \in Devs : a \notin ReachDevice(o) \cup ReachVirtual(o)

\* C4: after a successful load, when the current device has a navigable
\* control the selection is not null, is an element of one of the two
\* lists of the device, and is of navigable kind.
C4_CurrentSelectable ==
    (Loaded /\ NavDevice(cur_mixer) \cup NavVirtual(cur_mixer) # {})
    => /\ current # NULL
       /\ current \in Listed(ctl)
       /\ ctl[current].type \in NavTypes

\* C5: when SNDCTL_MIXERINFO or SNDCTL_MIX_EXTINFO fails in load_mixers,
\* load_mixers returns the error at once, so that main exits, and released
\* storage is never accessed.
C5_LoadFailureAborts ==
    /\ loadfail => pc = "exited"
    /\ ~uaf

\* ------------------------------------------------------------ volume keys
VolumeKeys == {"h", "l"} \cup DigitKeys

\* what SNDCTL_MIX_READ returns for control e of device d when it succeeds
ReadOk(d, e) == [ok |-> TRUE, value |-> tv[d][e]]

\* the left-channel sample of the packed value v for the control c
LeftSample(c, v) ==
    IF c.type = "MIXT_STEREOSLIDER" THEN v % 256
    ELSE IF c.type = "MIXT_STEREOSLIDER16" THEN v % 65536
    ELSE 0

\* The step that handles the key returned by getch() and returns to the loop
Dispatched(keys) == pc = "dispatch" /\ key \in keys /\ current # NULL /\ pc' = "loop"

\* A poll iteration has drawn the control p from the transport's present
\* value: the iteration marked it, draw_ui cleared the mark, and no key
\* has been handled since.
FreshlyDrawn(p) ==
    /\ pc = "dispatch" \/ (pc = "loop" /\ key = "none")
    /\ p \in Listed(ctl)
    /\ p < mixers[cur_mixer].nb_controls
    /\ ctl[p].needs_redraw = 0

\* C6: the digit key d, with a control selected, issues exactly one
\* transport write, to the selected control of the current device, of the
\* packed value for the percentage 10 * d; no other control's value
\* changes and the selection stays.
C6_DigitWrite ==
    [][ Dispatched(DigitKeys) =>
          /\ nwr' = nwr + 1
          /\ wr'.dev = cur_mixer
          /\ wr'.ctrl = current
          /\ wr'.value = set_control_volume(ctl[current], 10 * DigitVal[key])
          /\ wr'.ok => tv'[cur_mixer][current] = wr'.value
          /\ \A d \in Devs : \A e \in Slots :
                (d # cur_mixer \/ e # current) => tv'[d][e] = tv[d][e]
          /\ current' = current ]_vars

\* a digit key has set the selected 8-bit full-range control to 70 percent
C6_Witness ==
    /\ pc = "loop" /\ key = "7" /\ current # NULL
    /\ wr.ok /\ wr.volume = 70 /\ wr.ctrl = current /\ wr.dev = cur_mixer
    /\ tv[cur_mixer][current] = 17990

\* C7: a volume key that mutates the selected control (its write succeeds)
\* leaves the dirty bit of that control set and changes the dirty bit of
\* no other control.
C7_MutationMarksDirty ==
    [][ (Loaded /\ Dispatched(VolumeKeys) /\ nwr' = nwr + 1 /\ wr'.ok) =>
          /\ ctl'[current].needs_redraw = 1
          /\ \A e \in Slots \ {current} : ctl'[e].needs_redraw = ctl[e].needs_redraw ]_vars

\* The percentage a successful step key must leave, from the percentage v
StepTarget(k, v) == IF k = "l" THEN Min2(100, v + 5) ELSE Max2(0, v - 5)

\* A step key read the selected control, wrote it, and both calls succeeded
SteppedOk == Dispatched({"h", "l"}) /\ nwr' = nwr + 1 /\ wr'.ok

DecodedBefore == get_control_volume(ctl[current], ReadOk(cur_mixer, current))
DecodedAfter == get_control_volume(ctl[current], [ok |-> TRUE, value |-> tv'[cur_mixer][current]])

\* C8 as claimed: for a navigable control of any range with max > min, a
\* successful increment leaves the decoded volume at min(100, v + 5) and a
\* successful decrement at max(0, v - 5), v being the decoded volume before.
C8_StepExactAnyRange ==
    [][ (Loaded /\ SteppedOk /\ ctl[current].type \in NavTypes
                   /\ ctl[current].maxvalue > ctl[current].minvalue)
          => DecodedAfter = StepTarget(key, DecodedBefore) ]_vars

\* The ranges on which the codec is exact: min = 0 and max a multiple of
\* 100 that fits the channel field of the kind.
ExactRange(c) ==
    /\ c.type \in NavTypes
    /\ c.minvalue = 0
    /\ c.maxvalue > 0
    /\ c.maxvalue % 100 = 0
    /\ c.maxvalue <= (IF c.type = "MIXT_STEREOSLIDER" THEN 255 ELSE 32767)

\* C8 as amended: the same, for a control whose range is exact and whose
\* left sample before the step lies within the range.
C8_StepExact ==
    [][ (SteppedOk /\ ExactRange(ctl[current])
                   /\ LeftSample(ctl[current], tv[cur_mixer][current]) <= ctl[current].maxvalue)
          => DecodedAfter = StepTarget(key, DecodedBefore) ]_vars

\* an increment from 20 percent has left 25 percent, a decrement from 97
\* percent 92 percent, on a control of exact range
C8_Witness ==
    /\ pc = "loop" /\ key \in {"h", "l"} /\ current # NULL /\ wr.ok
    /\ ExactRange(ctl[current])
    /\ wr.base \in {20, 97}
    /\ wr.volume = StepTarget(key, wr.base)
    /\ DecodedBefore = wr.volume

Tens == { 10 * i : i \in 0 .. 10 }

\* C9: on a stereo-slider-8 control with min = 0 and max = 100, a
\* percentage p of {0, 10, ..., 100} that was encoded and written is, once
\* read back and decoded by the next draw pass, the percentage on screen.
C9_RoundTrip ==
    \A p \in Slots :
       (/\ nwr > 0 /\ wr.ok /\ wr.dev = cur_mixer /\ wr.ctrl = p
        /\ FreshlyDrawn(p)
        /\ ctl[p].type = "MIXT_STEREOSLIDER"
        /\ ctl[p].minvalue = 0 /\ ctl[p].maxvalue = 100
        /\ wr.volume \in Tens)
       => disp[p] = wr.volume

\* 100 percent (reached by an increment) and 90 percent (the digit 9) have
\* been written to such a control and are on screen after the redraw
C9_Witness ==
    /\ nwr > 0 /\ wr.ok /\ wr.ctrl \in Slots /\ wr.volume \in {90, 100}
    /\ FreshlyDrawn(wr.ctrl)
    /\ ctl[wr.ctrl].type = "MIXT_STEREOSLIDER"
    /\ ctl[wr.ctrl].minvalue = 0 /\ ctl[wr.ctrl].maxvalue = 100
    /\ disp[wr.ctrl] = wr.volume

\* C10: for a navigable control of any range with max > min whose left
\* sample lies in [min, max], the percentage decode produces (the one the
\* draw pass puts on screen) lies in [0, 100].
C10_DecodeInRange ==
    \A p \in Slots :
       (/\ Loaded /\ FreshlyDrawn(p)
        /\ ctl[p].type \in NavTypes
        /\ ctl[p].maxvalue > ctl[p].minvalue
        /\ LeftSample(ctl[p], tv[cur_mixer][p]) >= ctl[p].minvalue
        /\ LeftSample(ctl[p], tv[cur_mixer][p]) <= ctl[p].maxvalue)
       => (disp[p] >= 0 /\ disp[p] <= 100)

\* --------------------------------------------------------- poll iterations
\* One iteration of the loop of main up to the switch: select() returned
\* (not EINTR), every control of cur_mixer was marked and draw_ui returned.
\* main never calls SNDCTL_MIXERINFO in the loop and never reads
\* modify_counter: an iteration in which the device's generation counter
\* has advanced is like any other.
PollIteration == pc = "loop" /\ pc' \in {"loop", "dispatch"} /\ (pc' = "loop" => key' = "none")

\* The iteration has marked control e: it is left dirty, or the draw pass
\* has fetched it.
MarkedInIteration(e) == ctl'[e].needs_redraw = 1 \/ e \in rds'

\* The control records that describe controls of device m
RecordsOf(m) == { p \in Slots : ctl[p].type # ZeroType /\ ctl[p].dev = m }

\* C11: in a poll iteration (in particular one in which the generation
\* counter of the current device differs from the one last seen) every
\* control of the current device is marked dirty, and the dirty bit and
\* links of the controls of every other device and the selection of every
\* other device stay as they are.
C11_GenerationMarksDevice ==
    [][ (Loaded /\ PollIteration) =>
          /\ \A e \in Slots : e < mixers[cur_mixer].nb_controls => MarkedInIteration(e)
          /\ \A m \in Devs \ {cur_mixer} :
                /\ mixers'[m] = mixers[m]
                /\ \A p \in RecordsOf(m) :
                      /\ ctl'[p].needs_redraw = ctl[p].needs_redraw
                      /\ ctl'[p].ui_prev = ctl[p].ui_prev
                      /\ ctl'[p].ui_next = ctl[p].ui_next ]_vars

\* C12: in a poll iteration without a key (the generation counter is not
\* looked at, so also when it is unchanged) the loop sets no dirty bit: a
\* control that is clean when the iteration starts stays clean and is not
\* read through the transport by the draw pass.
C12_QuietIterationReadsNothing ==
    [][ (Loaded /\ PollIteration /\ key' = "none") =>
          \A e \in Slots :
             ctl[e].needs_redraw = 0 => (e \notin rds' /\ ctl'[e].needs_redraw = 0) ]_vars

\* A volume key wrote the selected control and the write succeeded
MutatedOk == Dispatched(VolumeKeys) /\ nwr' = nwr + 1 /\ wr'.ok

\* C13: the draw pass of an iteration runs after the key dispatch of that
\* iteration: when the iteration that dispatched a successful volume
\* mutation ends, the draw pass has fetched the written value of the
\* mutated control and put its percentage on screen (or its fetch failed
\* and the control is left dirty).
C13_DrawAfterDispatch ==
    [][ (Loaded /\ MutatedOk) =>
          \/ disp'[current] = DecodedAfter
          \/ ctl'[current].needs_redraw = 1 ]_vars

\* ------------------------------------------------------------- moves
\* The step that handles 'j' or 'k' with a control selected
Moved == Dispatched({"j", "k"})

\* no navigation link changes
LinksKept == \A e \in Slots : ctl'[e].ui_prev = ctl[e].ui_prev /\ ctl'[e].ui_next = ctl[e].ui_next

\* C14: a move that finds a target changes the selection and marks the old
\* and the new selected control (each is left dirty or was fetched by the
\* draw pass the move runs); it changes the dirty bit of no other control,
\* no link and no raw value.  A move without a target changes nothing and
\* issues no transport call.
C14_MoveFrame ==
    [][ (Loaded /\ Moved) =>
          IF current' # current
          THEN /\ MarkedInIteration(current) /\ MarkedInIteration(current')
               /\ \A e \in Slots \ {current, current'} :
                     ctl'[e].needs_redraw = ctl[e].needs_redraw
               /\ LinksKept
               /\ tv' = tv
          ELSE /\ ctl' = ctl /\ mixers' = mixers /\ tv' = tv /\ disp' = disp
               /\ rds' = {} /\ rdf' = {} /\ uierr' = FALSE /\ nwr' = nwr ]_vars

\* ------------------------------------------------------- no selection
SelectionKeys == {"j", "k", "h", "l"} \cup DigitKeys

\* C15: with no control selected (ui_curr_control of the current device is
\* NULL) the keys next, previous, decrement, increment and the digits do
\* nothing: no state changes, no write is issued and the loop goes on.
C15_NullSelectionNoOp ==
    [][ (Loaded /\ pc = "dispatch" /\ key \in SelectionKeys /\ current = NULL) =>
          /\ pc' = "loop"
          /\ mixers' = mixers /\ ctl' = ctl /\ tv' = tv /\ disp' = disp
          /\ nwr' = nwr ]_vars

\* ---------------------------------------------------------------------- C16
\* A step that ran draw_ui to its end: the first draw before the loop, the
\* draw of a poll iteration, or the draw inside a move that changed the
\* selection.
DrawPass ==
    /\ pc' \in {"loop", "dispatch"}
    /\ \/ pc = "load"
       \/ pc = "loop" /\ (pc' = "loop" => key' = "none")
       \/ pc = "dispatch" /\ key \in {"j", "k"} /\ current # NULL /\ current' # current

\* C16: in a draw pass, every control whose transport read failed keeps its
\* dirty bit, the failure is reported through set_ui_error, and the pass
\* goes on: every control of the two lists that is still dirty afterwards
\* was read in this pass.
C16_FailedReadKeepsDirty ==
    [][ (DrawPass /\ rdf' # {}) =>
            /\ \A p \in rdf' : ctl'[p].needs_redraw = 1
            /\ uierr'
            /\ \A e \in Listed(ctl') : ctl'[e].needs_redraw = 1 => e \in rds' ]_vars

\* The read of the first control of the Device list failed and a later
\* control of the lists was read and drawn in the same pass.
C16_Witness ==
    /\ pc \in {"loop", "dispatch"}
    /\ mixers[cur_mixer].ui_dev_controls # NULL
    /\ mixers[cur_mixer].ui_dev_controls \in rdf
    /\ ctl[mixers[cur_mixer].ui_dev_controls].needs_redraw = 1
    /\ uierr
    /\ \E e \in Listed(ctl) \ rdf : e \in rds /\ ctl[e].needs_redraw = 0

\* ---------------------------------------------------------------------- C17
\* The step leaves the poll loop
LoopEnds == pc \in {"loop", "dispatch"} /\ pc' \notin {"loop", "dispatch"}

\* C17: after a successful load the poll loop ends only by dispatching the
\* quit key; an interrupted wait changes nothing; and once the quit key has
\* been dispatched no key is dispatched and no transport request is issued.
C17_LoopEndsOnlyOnQuit ==
    [][ /\ (Loaded /\ LoopEnds) => (pc = "dispatch" /\ key = "q" /\ pc' = "done")
        /\ (pc = "done" /\ pc' = "done") =>
               (nwr' = nwr /\ wr' = wr /\ tv' = tv /\ disp' = disp /\ key' = key) ]_vars

\* ---------------------------------------------------------------------- C18
\* the right-channel sample of the packed value v for the control c
RightSample(c, v) ==
    IF c.type = "MIXT_STEREOSLIDER" THEN (v \div 256) % 256
    ELSE IF c.type = "MIXT_STEREOSLIDER16" THEN (v \div 65536) % 65536
    ELSE 0

\* the native value for the percentage p on the control c
Native(c, p) == c.minvalue + CDiv(p * (c.maxvalue - c.minvalue), 100)

\* The key handled in this step issued a transport write
Mutated == Dispatched(VolumeKeys) /\ nwr' = nwr + 1

\* The packed value written holds the native value for the percentage
\* written in both channel fields, and that native value is within range.
PackedBoth(c, w) ==
    /\ w.volume >= 0 /\ w.volume <= 100
    /\ LeftSample(c, w.value) = Native(c, w.volume)
    /\ RightSample(c, w.value) = Native(c, w.volume)
    /\ Native(c, w.volume) >= c.minvalue
    /\ Native(c, w.volume) <= c.maxvalue

\* C18 as claimed: every volume mutation on a navigable control of any
\* range with max > min sends a packed value whose left and right channel
\* fields both equal native = min + (p * (max - min)) / 100 for the clamped
\* percentage p, with native in [min, max].
C18_PackedFieldsAnyRange ==
    [][ (Loaded /\ Mutated /\ ctl[current].type \in NavTypes
                /\ ctl[current].maxvalue > ctl[current].minvalue)
          => PackedBoth(ctl[current], wr') ]_vars

\* The ranges whose native values fit the channel field of the kind
FieldRange(c) ==
    /\ c.type \in NavTypes
    /\ c.minvalue >= 0
    /\ c.maxvalue > c.minvalue
    /\ c.maxvalue <= (IF c.type = "MIXT_STEREOSLIDER" THEN 255 ELSE 32767)

\* C18 as amended: the same, for a control whose range is non-negative and
\* fits the channel field of its kind.
C18_PackedFields ==
    [][ (Mutated /\ FieldRange(ctl[current])) => PackedBoth(ctl[current], wr') ]_vars

\* 70 percent has been written to a control of range [10, 20]: both channel
\* fields of the packed value hold 17
C18_Witness ==
    /\ pc = "loop" /\ key \in VolumeKeys /\ current # NULL /\ nwr > 0
    /\ FieldRange(ctl[current])
    /\ ctl[current].minvalue = 10 /\ ctl[current].maxvalue = 20
    /\ wr.volume = 70
    /\ LeftSample(ctl[current], wr.value) = 17
    /\ RightSample(ctl[current], wr.value) = 17

\* ---------------------------------------------------------------------- C19
\* C19: after a successful load, from the selected control c a move_next
\* that changes the selection followed by a move_previous selects c again,
\* and a move_previous that changes the selection followed by a move_next
\* selects c again.
C19_MovesInverse ==
    (Loaded /\ current # NULL) =>
        /\ StepNext(current) # current => StepPrev(StepNext(current)) = current
        /\ StepPrev(current) # current => StepNext(StepPrev(current)) = current

\* ---------------------------------------------------------------------- C20
\* the control record is navigable with a proper range
ProperRange(c) == c.type \in NavTypes /\ c.maxvalue > c.minvalue

\* C20: a transport read that succeeded is never treated as a failure: a
\* draw pass clears the dirty bit of every control of proper range it read
\* successfully, and a step key whose read succeeded issues its write.
C20_ReadOkIsNoFailure ==
    [][ Loaded =>
          /\ DrawPass =>
                \A p \in rds' \ rdf' : ProperRange(ctl[p]) => ctl'[p].needs_redraw = 0
          /\ (Dispatched({"h", "l"}) /\ ProperRange(ctl[current]) /\ rdf' = {})
                => nwr' = nwr + 1 ]_vars

=============================================================================
